---- MODULE Spec2Model ----
(***************************************************************************)
(* Model of EnhancedArgosTokenGenerator (src/enhanced_token_generator.py): *)
(* the token cache, the request queue ArgosTokenManagerQueue, the          *)
(* synchronous entry point get_attestation_headers, the asynchronous one   *)
(* get_argos_token_async with its generate thread, and refresh_tokens.     *)
(* Every call is a thread of its own; one action is one step of a thread   *)
(* between two points where another thread can run.                        *)
(* ArgosTokenGenerator (src/argos_token_generator.py) and                  *)
(* ArgosTokenSimulator (src/token_simulator.py) are modelled beside it,    *)
(* each under a specification of its own (BasicSpec, SimSpec); RefreshSpec *)
(* takes the two refreshes alone, FunSpec the functions that read no state.*)
(***************************************************************************)
EXTENDS Integers, Sequences, FiniteSets, TLC

\* ------------------------------------------------------------------ bounds
MaxCalls == 2       \* calls (threads) started in one behaviour
MaxClock == 3601    \* time.time() is not advanced beyond this value
MaxPlainCalls == 3  \* calls made to ArgosTokenGenerator, or to ArgosTokenSimulator

\* ------------------------------------------------------- program constants
TokenTtl == 3600        \* get_tokens: expiry = time.time() + 3600
RefreshMargin == 300    \* refresh_tokens: time_to_expiry < 300
HotLimit == 10          \* _cache_token: len(self.token_cache) < 10

\* ------------------------------------------------------------------ inputs
Urls == {<<"a">>}
Methods == {<<"G">>}
\* the methods given to ArgosTokenGenerator and to ArgosTokenSimulator
PlainMethods == {<<"G">>, <<"g">>}
ArgosMode == {"STANDARD", "ENHANCED"}
ArgosRefreshReason == {"PREWARMING", "PREEMPTIVEREFRESH", "BLOCKINGREFRESH"}
\* what a callback given to get_argos_token_async does when it is invoked:
\* it returns, it raises, or it calls get_argos_token_async again
CallbackKinds == {"ok", "raise", "reenter"}
TickSteps == {3601}

VARIABLES
  clock,             \* time.time(), in seconds
  token_cache,       \* self.token_cache: cache key -> TokenAndPolicy
  hot_tokens,        \* self.hot_tokens
  pending_requests,  \* token_queue.pending_requests: cache key -> callbacks
  queue,             \* token_queue.queue
  lock,              \* token_queue.lock: 0 when free, else the thread holding it
  device_info,       \* self.device_info (shared with the attestation client)
  calls,             \* the calls made so far, each with its thread's locals
  stale,             \* the calls whose fetch began before the last BLOCKINGREFRESH
  cache_lock,        \* self.cache_lock: 0 when free, else the thread holding it
  basic_cache,       \* ArgosTokenGenerator.token_cache: cache key -> <<token, expiry>>
  basic_out,         \* what the calls of ArgosTokenGenerator.get_attestation_headers returned
  sim_cache,         \* ArgosTokenSimulator.token_cache: cache key -> headers and expiry
  sim_out,           \* what the calls of ArgosTokenSimulator.generate_token returned
  args,              \* the arguments drawn for a function that reads no state
  returned           \* what the function returned for them

\* the state of the other two generators and of the functions taken alone
outside == <<basic_cache, basic_out, sim_cache, sim_out, args, returned>>

vars == <<clock, token_cache, hot_tokens, pending_requests, queue, lock,
          device_info, calls, stale, cache_lock, outside>>

\* --------------------------------------------------------------- helpers
Put(f, k, v) == [x \in (DOMAIN f) \cup {k} |-> IF x = k THEN v ELSE f[x]]
Del(f, S) == [x \in (DOMAIN f) \ S |-> f[x]]

_get_cache_key(url, method, mode) == method \o <<":">> \o url \o <<":">> \o <<mode>>

\* is_expired with the comparison turned round
is_expired_flipped(token_record) == clock < token_record.expiry

\* is_expired that lets a record live one second beyond its expiry
is_expired_late(token_record) == clock > token_record.expiry + 1

\* TokenRecord.is_expired
is_expired(token_record) == clock > token_record.expiry

\* the record under the key, <<>> for None
_get_cached_token(key) ==
  IF key \in DOMAIN token_cache THEN <<token_cache[key]>> ELSE <<>>

KeyOf(c) == _get_cache_key(calls[c].url, calls[c].method, calls[c].mode)

CallIds == 1..Len(calls)

\* a call that has been made and has not yet had its result
InFlight(c) ==
  IF calls[c].kind = "sync" THEN calls[c].pc \in {"generate", "service"}
  ELSE calls[c].got = <<>>

\* the calls for the key that are in flight, when the cache holds no unexpired
\* record for the key
ConcurrentCalls(key) ==
  IF key \in DOMAIN token_cache /\ clock <= token_cache[key].expiry THEN {}
  ELSE {c \in CallIds : KeyOf(c) = key /\ InFlight(c)}

\* the fields of one call: its arguments, the position and the locals of the
\* thread running it, and what it returned or what its callback was given
NewCall(kind, url, method, mode, cb, pc) ==
  LET key == _get_cache_key(url, method, mode) IN
  [kind |-> kind, url |-> url, method |-> method, mode |-> mode, cb |-> cb,
   pc |-> pc,
   timestamp |-> -1,         \* timestamp of _generate_token_sync
   tap |-> <<>>,             \* token_and_policy returned by _generate_token_sync
   got |-> <<>>,             \* results returned to the caller / given to the callback
   leader |-> 0,             \* the call whose enqueue_request made the pending entry joined
   \* history, read by the properties only:
   concurrent |-> ConcurrentCalls(key),  \* the calls this one is concurrent with
   refreshed |-> stale]      \* the fetches begun before a BLOCKINGREFRESH that this call follows

Init ==
  /\ clock = 0
  /\ token_cache = <<>>
  /\ hot_tokens = {}
  /\ pending_requests = <<>>
  /\ queue = <<>>
  /\ lock = 0
  /\ device_info = [device_id |-> "dev", attestation |-> <<>>]
  /\ calls = <<>>
  /\ stale = {}
  /\ cache_lock = 0
  /\ basic_cache = <<>> /\ basic_out = <<>>
  /\ sim_cache = <<>> /\ sim_out = <<>>
  /\ args = <<>> /\ returned = <<>>

\* time passes
Tick(d) ==
  /\ clock + d <= MaxClock
  /\ clock' = clock + d
  /\ UNCHANGED <<token_cache, hot_tokens, pending_requests, queue, lock,
                 device_info, calls, stale, cache_lock, outside>>

\* SyncCall with a lookup that deletes the expired record it finds
SyncCall_purging(url, method, mode) ==
  /\ Len(calls) < MaxCalls
  /\ cache_lock = 0
  /\ LET key == _get_cache_key(url, method, mode)
         c == Len(calls) + 1
         cached_token == _get_cached_token(key)
     IN IF cached_token # <<>> /\ ~is_expired(cached_token[1])
          THEN /\ calls' = Append(calls,
                    [NewCall("sync", url, method, mode, "none", "done") EXCEPT
                       !.got = <<[ok |-> TRUE, by |-> c, token |-> <<cached_token[1].token>>]>>])
               /\ token_cache' = token_cache
          ELSE /\ calls' = Append(calls, NewCall("sync", url, method, mode, "none", "generate"))
               /\ token_cache' = Del(token_cache, {key})
  /\ UNCHANGED <<clock, hot_tokens, pending_requests, queue, lock,
                 device_info, stale, cache_lock, outside>>

\* get_attestation_headers, lines 278-287: the cache key, the lookup and the
\* expiry test, which reads the record just looked up and the clock; a record
\* that is there and not expired is returned, else a token is generated
SyncCall(url, method, mode) ==
  /\ Len(calls) < MaxCalls
  /\ cache_lock = 0           \* _get_cached_token takes cache_lock and releases it
  /\ LET key == _get_cache_key(url, method, mode)
         c == Len(calls) + 1
         cached_token == _get_cached_token(key)
     IN IF cached_token # <<>> /\ ~is_expired(cached_token[1])
          THEN calls' = Append(calls,
                 [NewCall("sync", url, method, mode, "none", "done") EXCEPT
                    !.got = <<[ok |-> TRUE, by |-> c, token |-> <<cached_token[1].token>>]>>])
          ELSE calls' = Append(calls, NewCall("sync", url, method, mode, "none", "generate"))
  /\ UNCHANGED <<clock, token_cache, hot_tokens, pending_requests, queue, lock,
                 device_info, stale, cache_lock, outside>>

\* PlatformClientAttestation.generate_attestation_payload; the fingerprint is a
\* digest of device_info as it is at the call, the digest taken as injective
generate_attestation_payload ==
  [timestamp |-> clock * 1000, device_fingerprint |-> device_info]

\* FetchStart taking cache_lock and keeping it for the time of the fetch
FetchStart_locked(c) ==
  /\ calls[c].pc = "generate"
  /\ cache_lock = 0 /\ cache_lock' = c
  /\ calls' = [calls EXCEPT ![c].pc = "service", ![c].timestamp = clock * 1000]
  /\ device_info' = [device_info EXCEPT !.attestation = <<generate_attestation_payload>>]
  /\ UNCHANGED <<clock, token_cache, hot_tokens, pending_requests, queue, lock,
                 stale, outside>>

\* _generate_token_sync, lines 331-351: the timestamp, the attestation payload,
\* and the request, whose device_info is self.device_info itself
FetchStart(c) ==
  /\ calls[c].pc = "generate"
  /\ calls' = [calls EXCEPT ![c].pc = "service", ![c].timestamp = clock * 1000]
  /\ device_info' = [device_info EXCEPT !.attestation = <<generate_attestation_payload>>]
  /\ UNCHANGED <<clock, token_cache, hot_tokens, pending_requests, queue, lock,
                 stale, cache_lock, outside>>

\* ArgosServiceClient._generate_token; the nonce secrets.token_hex(16) is a value
\* no other call draws, here the number of the call
_generate_token(c) ==
  [t |-> calls[c].timestamp, m |-> calls[c].mode, d |-> device_info.device_id,
   u |-> calls[c].url, n |-> c]

\* ArgosServiceClient.get_tokens: the TokenAndPolicy of the response
get_tokens(c) ==
  [token |-> _generate_token(c), expiry |-> clock + TokenTtl]

\* _cache_token, all of it under cache_lock
_cache_token(cache_key, token_and_policy) ==
  /\ cache_lock = 0 /\ cache_lock' = 0
  /\ token_cache' = Put(token_cache, cache_key, token_and_policy)
  /\ hot_tokens' = IF cache_key \in hot_tokens \/ Cardinality(DOMAIN token_cache') < HotLimit
                     THEN hot_tokens \cup {cache_key} ELSE hot_tokens

\* FetchSucceed in which the generate thread goes to complete_request without
\* having stored the token
FetchSucceed_unstored(c) ==
  /\ calls[c].pc = "service"
  /\ LET token_and_policy == get_tokens(c) IN
       IF calls[c].kind = "sync"
         THEN /\ _cache_token(KeyOf(c), token_and_policy)
              /\ calls' = [calls EXCEPT ![c].pc = "done", ![c].tap = <<token_and_policy>>,
                             ![c].got = <<[ok |-> TRUE, by |-> c,
                                           token |-> <<token_and_policy.token>>]>>]
         ELSE /\ calls' = [calls EXCEPT ![c].pc = "complete", ![c].tap = <<token_and_policy>>]
              /\ UNCHANGED <<token_cache, hot_tokens, cache_lock>>
  /\ UNCHANGED <<clock, pending_requests, queue, lock, device_info, stale, outside>>

\* _generate_token_sync, lines 354-357: the service returns, and the caller stores
\* the response, which no other thread sees before (line 293 or 319); the
\* synchronous call then builds the headers and returns (lines 296-299)
FetchSucceed(c) ==
  /\ calls[c].pc = "service"
  /\ LET token_and_policy == get_tokens(c) IN
       /\ _cache_token(KeyOf(c), token_and_policy)
       /\ calls' = IF calls[c].kind = "sync"
                     THEN [calls EXCEPT ![c].pc = "done", ![c].tap = <<token_and_policy>>,
                             ![c].got = <<[ok |-> TRUE, by |-> c,
                                           token |-> <<token_and_policy.token>>]>>]
                     ELSE [calls EXCEPT ![c].pc = "complete", ![c].tap = <<token_and_policy>>]
  /\ UNCHANGED <<clock, pending_requests, queue, lock, device_info, stale, outside>>

\* FetchFail with the response stored before the exception leaves
FetchFail_storing(c) ==
  /\ calls[c].pc = "service"
  /\ _cache_token(KeyOf(c), get_tokens(c))
  /\ calls' = [calls EXCEPT ![c].pc = IF calls[c].kind = "sync" THEN "raised" ELSE "except"]
  /\ UNCHANGED <<clock, pending_requests, queue, lock, device_info, stale, outside>>

\* _generate_token_sync, line 354: the service call raises; the exception leaves
\* get_attestation_headers, and is caught at line 322 in the generate thread
FetchFail(c) ==
  /\ calls[c].pc = "service"
  /\ calls' = [calls EXCEPT ![c].pc = IF calls[c].kind = "sync" THEN "raised" ELSE "except"]
  /\ UNCHANGED <<clock, token_cache, hot_tokens, pending_requests, queue, lock,
                 device_info, stale, cache_lock, outside>>

\* get_argos_token_async, lines 306-326, with enqueue_request: a follower only
\* registers its callback; a leader makes the entry and starts the generate thread
AsyncCall(url, method, cb) ==
  /\ Len(calls) < MaxCalls
  /\ lock = 0
  /\ LET key == _get_cache_key(url, method, "STANDARD")
         c == Len(calls) + 1
     IN IF key \in DOMAIN pending_requests
          THEN /\ pending_requests' = [pending_requests EXCEPT ![key] = Append(@, c)]
               /\ queue' = queue
               /\ calls' = Append(calls,
                    [NewCall("async", url, method, "STANDARD", cb, "waiting")
                       EXCEPT !.leader = Head(pending_requests[key])])
          ELSE /\ pending_requests' = Put(pending_requests, key, <<c>>)
               /\ queue' = Append(queue, key)
               /\ calls' = Append(calls,
                    [NewCall("async", url, method, "STANDARD", cb, "generate")
                       EXCEPT !.leader = c])
  /\ UNCHANGED <<clock, token_cache, hot_tokens, lock, device_info, stale,
                 cache_lock, outside>>

\* the position in callbacks of the first callback that does not return, 0 if all do
RECURSIVE FirstBad(_, _)
FirstBad(callbacks, i) ==
  IF i > Len(callbacks) THEN 0
  ELSE IF calls[callbacks[i]].cb # "ok" THEN i
  ELSE FirstBad(callbacks, i + 1)

\* complete_request reading the callbacks with get, the entry left in place
complete_request_get(c, result, pcOk, pcRaise) ==
  /\ lock = 0
  /\ LET key == KeyOf(c) IN
     IF key \notin DOMAIN pending_requests
       THEN /\ calls' = [calls EXCEPT ![c].pc = pcOk]
            /\ UNCHANGED <<pending_requests, lock>>
       ELSE LET callbacks == pending_requests[key]
                bad == FirstBad(callbacks, 1)
                last == IF bad = 0 THEN Len(callbacks) ELSE bad
                invoked == {callbacks[i] : i \in 1..last}
                outcome == IF bad = 0 THEN "ok" ELSE calls[callbacks[bad]].cb
                pc == CASE outcome = "ok" -> pcOk
                        [] outcome = "raise" -> pcRaise
                        [] OTHER -> "deadlocked"
            IN /\ pending_requests' = pending_requests
               /\ lock' = IF outcome = "reenter" THEN c ELSE 0
               /\ calls' = [i \in DOMAIN calls |->
                             [calls[i] EXCEPT
                                !.got = IF i \in invoked THEN Append(@, result) ELSE @,
                                !.pc = IF i = c THEN pc ELSE @]]
  /\ UNCHANGED <<clock, token_cache, hot_tokens, queue, device_info, stale,
                 cache_lock, outside>>

\* complete_request(KeyOf(c), result) called by thread c, which goes on at pcOk when
\* the call returns and at pcRaise when a callback raises; a callback that calls
\* get_argos_token_async blocks in enqueue_request on the lock its thread holds
complete_request(c, result, pcOk, pcRaise) ==
  /\ lock = 0
  /\ LET key == KeyOf(c) IN
     IF key \notin DOMAIN pending_requests
       THEN /\ calls' = [calls EXCEPT ![c].pc = pcOk]
            /\ UNCHANGED <<pending_requests, lock>>
       ELSE LET callbacks == pending_requests[key]
                bad == FirstBad(callbacks, 1)
                last == IF bad = 0 THEN Len(callbacks) ELSE bad
                invoked == {callbacks[i] : i \in 1..last}
                outcome == IF bad = 0 THEN "ok" ELSE calls[callbacks[bad]].cb
                pc == CASE outcome = "ok" -> pcOk
                        [] outcome = "raise" -> pcRaise
                        [] OTHER -> "deadlocked"
            IN /\ pending_requests' = Del(pending_requests, {key})
               /\ lock' = IF outcome = "reenter" THEN c ELSE 0
               /\ calls' = [i \in DOMAIN calls |->
                             [calls[i] EXCEPT
                                !.got = IF i \in invoked THEN Append(@, result) ELSE @,
                                !.pc = IF i = c THEN pc ELSE @]]
  /\ UNCHANGED <<clock, token_cache, hot_tokens, queue, device_info, stale,
                 cache_lock, outside>>

\* generate, lines 320-321
CompleteSuccess(c) ==
  /\ calls[c].pc = "complete"
  /\ complete_request(c, [ok |-> TRUE, by |-> c, token |-> <<calls[c].tap[1].token>>],
                      "finished", "except")

\* generate, lines 322-323; an exception raised here ends the thread
CompleteFailure(c) ==
  /\ calls[c].pc = "except"
  /\ complete_request(c, [ok |-> FALSE, by |-> c, token |-> <<>>], "finished", "died")

\* refresh_tokens evicting, for PREEMPTIVEREFRESH, the expired records only
Refresh_expired_only(reason) ==
  /\ cache_lock = 0
  /\ CASE reason = "BLOCKINGREFRESH" ->
            /\ token_cache' = <<>>
            /\ hot_tokens' = {}
            /\ stale' = {c \in CallIds : calls[c].timestamp # -1}
       [] reason = "PREEMPTIVEREFRESH" ->
            /\ token_cache' = Del(token_cache,
                 {key \in DOMAIN token_cache : token_cache[key].expiry - clock < 0})
            /\ UNCHANGED <<hot_tokens, stale>>
       [] OTHER -> UNCHANGED <<token_cache, hot_tokens, stale>>
  /\ UNCHANGED <<clock, pending_requests, queue, lock, device_info, calls,
                 cache_lock, outside>>

\* refresh_tokens that drops the cache for PREWARMING too
Refresh_prewarm_clears(reason) ==
  /\ cache_lock = 0
  /\ CASE reason = "BLOCKINGREFRESH" ->
            /\ token_cache' = <<>>
            /\ hot_tokens' = {}
            /\ stale' = {c \in CallIds : calls[c].timestamp # -1}
       [] reason = "PREEMPTIVEREFRESH" ->
            /\ token_cache' = Del(token_cache,
                 {key \in DOMAIN token_cache : token_cache[key].expiry - clock < RefreshMargin})
            /\ UNCHANGED <<hot_tokens, stale>>
       [] OTHER -> /\ token_cache' = <<>>
                   /\ UNCHANGED <<hot_tokens, stale>>
  /\ UNCHANGED <<clock, pending_requests, queue, lock, device_info, calls,
                 cache_lock, outside>>

\* refresh_tokens(reason), all of it under cache_lock
Refresh(reason) ==
  /\ cache_lock = 0
  /\ CASE reason = "BLOCKINGREFRESH" ->
            /\ token_cache' = <<>>
            /\ hot_tokens' = {}
            /\ stale' = {c \in CallIds : calls[c].timestamp # -1}
       [] reason = "PREEMPTIVEREFRESH" ->
            /\ token_cache' = Del(token_cache,
                 {key \in DOMAIN token_cache : token_cache[key].expiry - clock < RefreshMargin})
            /\ UNCHANGED <<hot_tokens, stale>>
       [] OTHER -> UNCHANGED <<token_cache, hot_tokens, stale>>
  /\ UNCHANGED <<clock, pending_requests, queue, lock, device_info, calls,
                 cache_lock, outside>>

Next ==
  \/ \E d \in TickSteps : Tick(d)
  \/ \E u \in Urls, m \in Methods, mode \in ArgosMode : SyncCall(u, m, mode)
  \/ \E u \in Urls, m \in Methods, cb \in CallbackKinds : AsyncCall(u, m, cb)
  \/ \E c \in CallIds : FetchStart(c)
  \/ \E c \in CallIds : FetchSucceed(c)
  \/ \E c \in CallIds : FetchFail(c)
  \/ \E c \in CallIds : CompleteSuccess(c)
  \/ \E c \in CallIds : CompleteFailure(c)
  \/ \E reason \in ArgosRefreshReason : Refresh(reason)

Spec == Init /\ [][Next]_vars

\* a step of the thread of call c
Thread(c) ==
  /\ c \in CallIds
  /\ \/ FetchStart(c) \/ FetchSucceed(c) \/ FetchFail(c)
     \/ CompleteSuccess(c) \/ CompleteFailure(c)

\* every thread that can run is scheduled
FairSpec == Spec /\ \A c \in 1..MaxCalls : WF_vars(Thread(c))

\* ------------------------------- ArgosTokenGenerator (argos_token_generator.py)
\* The class takes no lock and starts no thread: one call is one step.
token_expiry == 3600          \* self.token_expiry
BasicRefreshMargin == 300     \* refresh_token: expiry - current_time < 300

\* an optional string: <<>> for None, <<s>> for the string s
Bodies == {<<>>, << <<"x">> >>}

\* Python's truth value of an optional string: None and "" are false
Truthy(body) == body # <<>> /\ body[1] # <<>>

\* the state of EnhancedArgosTokenGenerator
enhanced == <<token_cache, hot_tokens, pending_requests, queue, lock, device_info,
              calls, stale, cache_lock>>

\* str.upper(), one character and a whole string
UpperChar(ch) == IF ch = "g" THEN "G" ELSE ch
Upper(str) == [i \in DOMAIN str |-> UpperChar(str[i])]

\* a hex digest, a string of its own for every input (no collisions)
Digest(alg, x) == ToString(<<alg, x>>)

\* "\n".join(parts), every part a sequence of characters
RECURSIVE Join(_)
Join(parts) ==
  IF parts = <<>> THEN <<>>
  ELSE IF Len(parts) = 1 THEN parts[1]
  ELSE parts[1] \o <<"\n">> \o Join(Tail(parts))

\* DeviceInfo given to ArgosTokenGenerator
DeviceInfo == [device_id |-> "dev", platform |-> "Android", app_version |-> "13.51"]

\* generate_device_fingerprint at time now
generate_device_fingerprint(now) ==
  Digest("sha256", [device |-> DeviceInfo, timestamp |-> now * 1000])

\* generate_request_signature at time now
generate_request_signature(url, method, body, now) ==
  Digest("sha512",
    Join(<<Upper(method), url, <<ToString(now * 1000)>>, <<generate_device_fingerprint(now)>>>>
         \o (IF Truthy(body) THEN << <<Digest("sha256", body[1])>> >> ELSE <<>>)))

\* create_attestation_payload at time now
create_attestation_payload(url, method, body, now) ==
  [timestamp |-> now * 1000,
   device_fingerprint |-> generate_device_fingerprint(now),
   signature |-> generate_request_signature(url, method, body, now),
   platform |-> DeviceInfo.platform, app_version |-> DeviceInfo.app_version,
   request_info |-> [url |-> url, method |-> method, has_body |-> body # <<>>]]

\* generate_token, lines 171-195: the token built at time now
BuildToken(url, method, body, mode, now) ==
  [v |-> 1,
   p |-> [payload |-> create_attestation_payload(url, method, body, now), mode |-> mode],
   t |-> now * 1000, m |-> mode]

\* generate_token, line 165
BasicCacheKey(url, method, mode) == url \o <<":">> \o method \o <<":">> \o <<mode>>

\* refresh_token(reason)
refresh_token(reason) ==
  /\ CASE reason = "BLOCKINGREFRESH" -> basic_cache' = <<>>
       [] reason = "PREEMPTIVEREFRESH" ->
            basic_cache' = Del(basic_cache,
              {key \in DOMAIN basic_cache : basic_cache[key][2] - clock < BasicRefreshMargin})
       [] OTHER -> UNCHANGED basic_cache
  /\ UNCHANGED <<clock, enhanced, basic_out, sim_cache, sim_out, args, returned>>

HEADER_NAME == "x-snapchat-att-token"

\* ArgosTokenGenerator.get_attestation_headers(url, method, body, mode), with
\* the generate_token it calls: a cached token whose expiry is still ahead is
\* returned, else a token is built and stored
get_attestation_headers(url, method, body, mode) ==
  /\ Len(basic_out) < MaxPlainCalls
  /\ LET cache_key == BasicCacheKey(url, method, mode)
         hit == cache_key \in DOMAIN basic_cache /\ clock < basic_cache[cache_key][2]
         token == IF hit THEN basic_cache[cache_key][1]
                  ELSE BuildToken(url, method, body, mode, clock)
     IN /\ basic_cache' = IF hit THEN basic_cache
                          ELSE Put(basic_cache, cache_key, <<token, clock + token_expiry>>)
        /\ basic_out' = Append(basic_out,
             [url |-> url, method |-> method, body |-> body, mode |-> mode, cached |-> hit,
              headers |-> (HEADER_NAME :> token)
                          @@ ("X-Snapchat-Client-Version" :> DeviceInfo.app_version)
                          @@ ("X-Snapchat-Platform" :> DeviceInfo.platform)])
  /\ UNCHANGED <<clock, enhanced, sim_cache, sim_out, args, returned>>

BasicNext ==
  \/ \E d \in TickSteps : Tick(d)
  \/ \E u \in Urls, m \in PlainMethods, body \in Bodies, mode \in ArgosMode :
       get_attestation_headers(u, m, body, mode)
  \/ \E reason \in ArgosRefreshReason : refresh_token(reason)

BasicSpec == Init /\ [][BasicNext]_vars

\* --------------------------------------- ArgosTokenSimulator (token_simulator.py)
\* The class takes no lock and starts no thread: one call is one step.
SimTtl == 3600                \* generate_token: 'expiry': time.time() + 3600

\* the names of the three headers (ArgosHeaderType; token_simulator.py 196-198)
TOKEN == "x-snapchat-att-token"
SIGNATURE == "x-snapchat-att-sign"
TRACKING == "x-request-consistent-tracking-id"

\* _simulate_hardware_attestation at time now; fresh is the value token_hex draws
_simulate_hardware_attestation(now, fresh) ==
  [device_id |-> "simdev", timestamp |-> now * 1000, platform |-> "Android",
   nonce |-> fresh]

\* _generate_proto_payload
_generate_proto_payload(url, method, body, now, fresh) ==
  [url |-> url, method |-> method, timestamp |-> now * 1000, device_id |-> "simdev",
   attestation |-> _simulate_hardware_attestation(now, fresh),
   body_hash |-> IF Truthy(body) THEN <<Digest("sha256", body[1])>> ELSE <<>>]

\* _simulate_native_signing
_simulate_native_signing(payload) == Digest("hmac-sha256", payload)

\* _build_token_structure
_build_token_structure(signed_payload, now, fresh) ==
  [v |-> 1, t |-> now * 1000, m |-> "STANDARD", d |-> "simdev", p |-> signed_payload,
   k |-> 1, n |-> fresh]

\* generate_token, lines 182-184: the string that is signed
signature_data(method, url, token, now, body) ==
  Join(<<method, url, <<ToString(token)>>, <<ToString(now * 1000)>>>>
       \o (IF Truthy(body) THEN << <<Digest("sha256", body[1])>> >> ELSE <<>>))

\* generate_token, line 163
SimCacheKey(url, method) == method \o <<":">> \o url

\* generate_token, lines 172-199: the headers of a miss; the three values that
\* secrets.token_hex draws are values no other call draws, here the number of
\* the call
SimHeaders(url, method, body, now, fresh) ==
  LET token == _build_token_structure(
                 _simulate_native_signing(_generate_proto_payload(url, method, body, now, fresh)),
                 now, fresh)
  IN (TOKEN :> token)
     @@ (SIGNATURE :> Digest("hmac-sha512", signature_data(method, url, token, now, body)))
     @@ (TRACKING :> fresh)

\* ArgosTokenSimulator.generate_token(url, method, body)
generate_token(url, method, body) ==
  /\ Len(sim_out) < MaxPlainCalls
  /\ LET cache_key == SimCacheKey(url, method)
         hit == cache_key \in DOMAIN sim_cache /\ sim_cache[cache_key].expiry > clock
         headers == IF hit THEN sim_cache[cache_key].headers
                    ELSE SimHeaders(url, method, body, clock, Len(sim_out) + 1)
     IN /\ sim_cache' = IF hit THEN sim_cache
                        ELSE Put(sim_cache, cache_key,
                                 [headers |-> headers, expiry |-> clock + SimTtl])
        /\ sim_out' = Append(sim_out, [url |-> url, method |-> method, body |-> body,
                                       cached |-> hit, headers |-> headers])
  /\ UNCHANGED <<clock, enhanced, basic_cache, basic_out, args, returned>>

SimNext ==
  \/ \E d \in TickSteps : Tick(d)
  \/ \E u \in Urls, m \in PlainMethods, body \in Bodies : generate_token(u, m, body)

SimSpec == Init /\ [][SimNext]_vars

\* ------------------------------------------- the two refreshes taken alone
\* The caches a refresh can meet: each of two keys absent, or fetched at some
\* time and then expiring TokenTtl later; the clock is such that the records
\* are expired, inside the margin, on the margin, or beyond it.
RefreshClocks == {3900, 3901}
RefreshExpiries == {3600, 4199, 4200, 4201, 7500}

\* the record get_tokens made for the mode when it was called at expiry - TokenTtl
RecordExpiring(mode, expiry) ==
  [token |-> [t |-> (expiry - TokenTtl) * 1000, m |-> mode, d |-> "dev",
              u |-> <<"a">>, n |-> IF mode = "STANDARD" THEN 1 ELSE 2],
   expiry |-> expiry]

\* the cache entry generate_token made for the mode at expiry - token_expiry
BasicEntryExpiring(mode, expiry) ==
  <<BuildToken(<<"a">>, <<"G">>, <<>>, mode, expiry - token_expiry), expiry>>

RefreshInit ==
  /\ clock \in RefreshClocks
  /\ \E S \in SUBSET ArgosMode : \E exp \in [S -> RefreshExpiries] :
       /\ token_cache = [key \in {_get_cache_key(<<"a">>, <<"G">>, mode) : mode \in S}
                           |-> RecordExpiring(key[Len(key)], exp[key[Len(key)]])]
       /\ hot_tokens = DOMAIN token_cache
  /\ \E S \in SUBSET ArgosMode : \E exp \in [S -> RefreshExpiries] :
       basic_cache = [key \in {BasicCacheKey(<<"a">>, <<"G">>, mode) : mode \in S}
                        |-> BasicEntryExpiring(key[Len(key)], exp[key[Len(key)]])]
  /\ args = [token_cache |-> token_cache, basic_cache |-> basic_cache]
  /\ pending_requests = <<>> /\ queue = <<>> /\ lock = 0 /\ cache_lock = 0
  /\ device_info = [device_id |-> "dev", attestation |-> <<>>]
  /\ calls = <<>> /\ stale = {}
  /\ basic_out = <<>> /\ sim_cache = <<>> /\ sim_out = <<>> /\ returned = <<>>

RefreshNext ==
  \/ \E reason \in ArgosRefreshReason : Refresh(reason)
  \/ \E reason \in ArgosRefreshReason : refresh_token(reason)

RefreshSpec == RefreshInit /\ [][RefreshNext]_vars

\* ------------------------------------ the functions that read no state
\* _generate_signature, lines 385-395: the string that is signed, at time now
string_to_sign(url, method, body, token, now) ==
  Join(<<Upper(method), url, <<ToString(token)>>, <<ToString(now * 1000)>>>>
       \o (IF Truthy(body) THEN << <<Digest("sha256", body[1])>> >> ELSE <<>>))

\* _generate_signature
_generate_signature(url, method, body, token, now) ==
  Digest("sha512", string_to_sign(url, method, body, token, now))

\* the requests whose cache keys are compared: methods and urls with and
\* without the separator
KeyMethods == {<<"G">>, <<"G", ":", "a">>}
KeyUrls == {<<"a">>, <<"b">>, <<"a", ":", "b">>}
KeyRequests == [method : KeyMethods, url : KeyUrls, mode : ArgosMode]

\* the inputs whose signed strings are compared; a body is None, "" or "x"
SignMethods == {<<"g">>, <<"G">>, <<"P">>}
SignUrls == {<<"a">>, <<"b">>}
SignTokens == {"T1", "T2"}
SignClocks == {0, 1}
SignBodies == {<<>>, << <<>> >>, << <<"x">> >>}
SignInputs == [method : SignMethods, url : SignUrls, token : SignTokens,
               now : SignClocks, body : SignBodies]

\* the number of fields in which two inputs differ
Differences(a, b) ==
  Cardinality({f \in DOMAIN a : a[f] # b[f]})

FunInit ==
  /\ \/ \E a, b \in KeyRequests : args = [fn |-> "key", a |-> a, b |-> b]
     \/ \E a, b \in SignInputs :
          Differences(a, b) <= 1 /\ args = [fn |-> "sign", a |-> a, b |-> b]
  /\ returned = <<>>
  /\ clock = 0 /\ token_cache = <<>> /\ hot_tokens = {}
  /\ pending_requests = <<>> /\ queue = <<>> /\ lock = 0 /\ cache_lock = 0
  /\ device_info = [device_id |-> "dev", attestation |-> <<>>]
  /\ calls = <<>> /\ stale = {}
  /\ basic_cache = <<>> /\ basic_out = <<>> /\ sim_cache = <<>> /\ sim_out = <<>>

\* the cache key of each generator for the two requests
CacheKeys ==
  /\ args.fn = "key" /\ returned = <<>>
  /\ LET a == args.a
         b == args.b
     IN returned' =
          [enhanced |-> <<_get_cache_key(a.url, a.method, a.mode),
                          _get_cache_key(b.url, b.method, b.mode)>>,
           basic |-> <<BasicCacheKey(a.url, a.method, a.mode),
                       BasicCacheKey(b.url, b.method, b.mode)>>,
           sim |-> <<SimCacheKey(a.url, a.method), SimCacheKey(b.url, b.method)>>]
  /\ UNCHANGED <<clock, enhanced, basic_cache, basic_out, sim_cache, sim_out, args>>

\* the string each generator signs for the two inputs
Signatures ==
  /\ args.fn = "sign" /\ returned = <<>>
  /\ LET a == args.a
         b == args.b
     IN returned' =
          [enhanced |-> <<string_to_sign(a.url, a.method, a.body, a.token, a.now),
                          string_to_sign(b.url, b.method, b.body, b.token, b.now)>>,
           sim |-> <<signature_data(a.method, a.url, a.token, a.now, a.body),
                     signature_data(b.method, b.url, b.token, b.now, b.body)>>]
  /\ UNCHANGED <<clock, enhanced, basic_cache, basic_out, sim_cache, sim_out, args>>

FunNext == CacheKeys \/ Signatures

FunSpec == FunInit /\ [][FunNext]_vars

\* ------------------------------------------------------------ properties
\* get_tokens has been called for call c (it returned or it raised)
IssuerCalled(c) == calls[c].timestamp # -1 /\ calls[c].pc # "service"

\* the fetch of call c failed
FetchFailed(c) == IssuerCalled(c) /\ calls[c].tap = <<>>

\* call c has been given a token
ReceivedToken(c) == calls[c].got # <<>> /\ calls[c].got[1].ok

\* the calls made by the step
NewCalls == (DOMAIN calls') \ (DOMAIN calls)

\* C1: callers that ask for one key concurrently, while no unexpired record is
\* cached for it, cause one call of get_tokens and are given the same token
C1_Coalescing ==
  \A c2 \in CallIds : \A c1 \in calls[c2].concurrent :
    /\ ~(IssuerCalled(c1) /\ IssuerCalled(c2))
    /\ ReceivedToken(c1) /\ ReceivedToken(c2) => calls[c1].got[1].token = calls[c2].got[1].token

\* C2: at most one execution of _generate_token_sync is in flight for a key
C2_OneFetchPerKey ==
  \A c1, c2 \in CallIds :
    c1 # c2 /\ KeyOf(c1) = KeyOf(c2) /\ calls[c1].pc = "service" => calls[c2].pc # "service"

\* C3: a get_attestation_headers call for a key whose cached record is not
\* expired returns the cached token, calls get_tokens for no call, builds no
\* attestation payload and leaves the cache as it is
C3_FastPath ==
  [][\A c \in NewCalls :
       LET key == _get_cache_key(calls'[c].url, calls'[c].method, calls'[c].mode) IN
       calls'[c].kind = "sync" /\ key \in DOMAIN token_cache
         /\ clock <= token_cache[key].expiry
       => /\ calls'[c].pc = "done"
          /\ calls'[c].got = <<[ok |-> TRUE, by |-> c, token |-> <<token_cache[key].token>>]>>
          /\ calls'[c].timestamp = -1
          /\ \A d \in CallIds : calls'[d] = calls[d]
          /\ device_info' = device_info
          /\ token_cache' = token_cache /\ hot_tokens' = hot_tokens]_vars

\* C3, its case: a call has returned the token that another call fetched
C3_Witness ==
  \E c \in CallIds : calls[c].kind = "sync" /\ calls[c].pc = "done"
                     /\ calls[c].timestamp = -1 /\ calls[c].got[1].token[1].n # c

\* C4: a get_attestation_headers call made after a BLOCKINGREFRESH returned
\* is not given a token whose fetch began before that refresh
C4_NoPreRefreshToken ==
  \A c \in CallIds :
    calls[c].kind = "sync" /\ ReceivedToken(c)
      => calls[c].got[1].token[1].n \notin calls[c].refreshed

\* C5 as a property of behaviours (under FairSpec): every callback registered
\* through get_argos_token_async is invoked in the end
C5_CallbackInvoked ==
  \A c \in 1..MaxCalls :
    [](c \in CallIds /\ calls[c].kind = "async"
         => <>(c \in CallIds /\ calls[c].got # <<>>))

\* C5, for a thread that has ended: no callback registered with a leader whose
\* thread has ended is left without its call
C5_NoneLeftBehind ==
  \A c \in CallIds :
    calls[c].kind = "async" /\ calls[calls[c].leader].pc \in {"finished", "died"}
      => calls[c].got # <<>>

\* C6: the callback of one get_argos_token_async call is invoked at most once,
\* with a success that carries a token or a failure that carries none
C6_AtMostOnce ==
  \A c \in CallIds :
    calls[c].kind = "async"
      => /\ Len(calls[c].got) <= 1
         /\ \A i \in 1..Len(calls[c].got) : calls[c].got[i].ok <=> calls[c].got[i].token # <<>>

\* C6, its case: complete_request has run for a leader with a follower, and the
\* thread has ended, after a callback raised or not
C6_Witness ==
  \E c1, c2 \in CallIds :
    /\ c1 # c2 /\ calls[c2].kind = "async" /\ calls[c2].leader = c1
    /\ calls[c1].pc \in {"finished", "died"}
    /\ Len(calls[c1].got) = 1

\* C7: when the fetch of a leader fails and the thread has left line 323, every
\* callback registered with that leader has been given the failure, and the
\* pending entry of the leader is gone
C7_FailureReachesAll ==
  \A l \in CallIds :
    calls[l].kind = "async" /\ calls[l].leader = l /\ FetchFailed(l)
      /\ calls[l].pc \in {"finished", "died"}
    => /\ \A c \in CallIds :
            calls[c].leader = l => calls[c].got = <<[ok |-> FALSE, by |-> l, token |-> <<>>]>>
       /\ \A k \in DOMAIN pending_requests : l \notin {pending_requests[k][i] : i \in 1..Len(pending_requests[k])}

\* C8: the step in which a fetch fails, and every later step of the call whose
\* fetch failed, leaves token_cache and hot_tokens as they are
C8_FailureKeepsCache ==
  [][\A c \in CallIds :
       /\ calls'[c] # calls[c]
       /\ \/ calls[c].pc = "service" /\ calls'[c].pc \in {"raised", "except"}
          \/ FetchFailed(c)
       => token_cache' = token_cache /\ hot_tokens' = hot_tokens]_vars

\* C8, its case: a fetch has failed while the cache holds a record
C8_Witness ==
  \E c \in CallIds : FetchFailed(c) /\ calls[c].pc \in {"raised", "finished"}
                     /\ DOMAIN token_cache # {}

\* C9: the callbacks registered between the enqueue_request of a leader and its
\* complete_request are given one result, the one of that leader's thread
C9_FanOut ==
  \A c \in CallIds :
    calls[c].kind = "async"
      => /\ \A i \in 1..Len(calls[c].got) : calls[c].got[i].by = calls[c].leader
         /\ \A d \in CallIds :
              calls[d].leader = calls[c].leader /\ calls[c].got # <<>> /\ calls[d].got # <<>>
                => calls[d].got = calls[c].got

\* C10: get_argos_token_async called for a key with an unexpired cached record
\* and no fetch in flight starts no fetch and gives the cached token to the
\* callback
C10_AsyncFastPath ==
  [][\A c \in NewCalls :
       LET key == _get_cache_key(calls'[c].url, calls'[c].method, calls'[c].mode) IN
       calls'[c].kind = "async" /\ key \in DOMAIN token_cache
         /\ clock <= token_cache[key].expiry
         /\ key \notin DOMAIN pending_requests
       => /\ calls'[c].pc # "generate"
          /\ calls'[c].got # <<>>
          /\ calls'[c].got[1].token = <<token_cache[key].token>>]_vars

\* C11: a PREEMPTIVEREFRESH, of EnhancedArgosTokenGenerator and of
\* ArgosTokenGenerator alike, removes every entry with less than 300 s left
\* (expired ones too) and leaves every entry with more than 300 s left as it is
C11_PreemptiveRefresh ==
  [][/\ Refresh("PREEMPTIVEREFRESH") =>
          \A key \in DOMAIN token_cache :
            /\ token_cache[key].expiry - clock < 300 => key \notin DOMAIN token_cache'
            /\ token_cache[key].expiry - clock > 300 =>
                  key \in DOMAIN token_cache' /\ token_cache'[key] = token_cache[key]
     /\ refresh_token("PREEMPTIVEREFRESH") =>
          \A key \in DOMAIN basic_cache :
            /\ basic_cache[key][2] - clock < 300 => key \notin DOMAIN basic_cache'
            /\ basic_cache[key][2] - clock > 300 =>
                  key \in DOMAIN basic_cache' /\ basic_cache'[key] = basic_cache[key]]_vars

\* C11, its case: each generator held an expired entry and one with more than
\* 300 s left, and after the refresh holds the second alone
C11_Witness ==
  /\ args # <<>>
  /\ \E k1, k2 \in DOMAIN args.token_cache :
       /\ args.token_cache[k1].expiry < clock /\ args.token_cache[k2].expiry - clock > 300
       /\ hot_tokens = {k1, k2} /\ DOMAIN token_cache = {k2}
  /\ \E k1, k2 \in DOMAIN args.basic_cache :
       /\ args.basic_cache[k1][2] < clock /\ args.basic_cache[k2][2] - clock > 300
       /\ DOMAIN basic_cache = {k2}

\* C12: no two header-producing calls return the same tracking id, also when
\* they return the same cached token; the tracking id does not come from the cache
C12_FreshTrackingId ==
  \A i, j \in DOMAIN sim_out :
    i # j => sim_out[i].headers[TRACKING] # sim_out[j].headers[TRACKING]

\* C13: two fetches for one request (same url, method, body and mode) give
\* different tokens, so the call after a BLOCKINGREFRESH returns a token other
\* than the one cached before, also when the clock stands still
C13_RefetchDiffers ==
  /\ \A i, j \in DOMAIN basic_out :
       /\ i < j /\ ~basic_out[i].cached /\ ~basic_out[j].cached
       /\ basic_out[i].url = basic_out[j].url /\ basic_out[i].method = basic_out[j].method
       /\ basic_out[i].body = basic_out[j].body /\ basic_out[i].mode = basic_out[j].mode
       => basic_out[i].headers[HEADER_NAME] # basic_out[j].headers[HEADER_NAME]
  /\ \A c1, c2 \in CallIds :
       c1 # c2 /\ KeyOf(c1) = KeyOf(c2) /\ calls[c1].tap # <<>> /\ calls[c2].tap # <<>>
       => calls[c1].tap[1].token # calls[c2].tap[1].token

\* C14: device_info has the keys and values it was given at construction
\* (no "attestation" key among them), whatever calls have been made
C14_DeviceInfoKept ==
  device_info = [device_id |-> "dev", attestation |-> <<>>]

\* C15: two requests have the same cache key if and only if they have the
\* same method, url and mode (for ArgosTokenSimulator, which has no mode, the
\* same method and url), also when a method or url contains ':'
C15_KeyInjective ==
  args # <<>> /\ args.fn = "key" /\ returned # <<>>
  => /\ args.a = args.b <=> returned.enhanced[1] = returned.enhanced[2]
     /\ args.a = args.b <=> returned.basic[1] = returned.basic[2]
     /\ (args.a.method = args.b.method /\ args.a.url = args.b.url)
          <=> returned.sim[1] = returned.sim[2]

\* C16: two inputs of _generate_signature that are the same sign the same
\* string, and two that differ in one of method, url, token, timestamp and
\* body sign different strings, in EnhancedArgosTokenGenerator and in
\* ArgosTokenSimulator
C16_SignatureSensitive ==
  args # <<>> /\ args.fn = "sign" /\ returned # <<>>
  => /\ args.a = args.b <=> returned.enhanced[1] = returned.enhanced[2]
     /\ args.a = args.b <=> returned.sim[1] = returned.sim[2]

\* C17: the headers a call returns are the three named x-snapchat-att-token,
\* x-snapchat-att-sign and x-request-consistent-tracking-id, no more and no
\* fewer, for ArgosTokenGenerator.get_attestation_headers and for
\* ArgosTokenSimulator.generate_token
C17_ThreeHeaders ==
  /\ \A i \in DOMAIN basic_out : DOMAIN basic_out[i].headers = {TOKEN, SIGNATURE, TRACKING}
  /\ \A i \in DOMAIN sim_out : DOMAIN sim_out[i].headers = {TOKEN, SIGNATURE, TRACKING}

\* C18: while a call is in its fetch (from the attestation payload to the
\* return of get_tokens) its thread does not hold cache_lock, and nobody else
\* does for the time of a fetch: the lock is free for the lookups of others
C18_FetchOutsideLock ==
  \A c \in CallIds : calls[c].pc = "service" => cache_lock # c /\ cache_lock = 0

\* C18, its case: a fetch is in flight and a later call for another key has
\* made its lookup
C18_Witness ==
  \E c1, c2 \in CallIds :
    /\ c1 < c2 /\ calls[c1].pc = "service" /\ KeyOf(c1) # KeyOf(c2)
    /\ calls[c2].kind = "sync" /\ calls[c2].pc = "generate" /\ cache_lock = 0

\* the generate thread of call c is running (it has not yet left complete_request)
AsyncRunning(c) ==
  calls[c].kind = "async" /\ calls[c].pc \in {"generate", "service", "complete", "except"}

\* C19: when no generate thread is running, ArgosTokenManagerQueue holds no
\* entry, neither in pending_requests nor in queue
C19_NoIdleEntries ==
  (\A c \in CallIds : ~AsyncRunning(c))
    => DOMAIN pending_requests = {} /\ Len(queue) = 0

\* C20: a step that starts get_attestation_headers (the lookup, hit or miss)
\* leaves token_cache and hot_tokens as they are; a cache entry goes or changes
\* only in a refresh_tokens step or in the step that stores a fetch for its key
C20_LookupKeepsCache ==
  [][/\ (\E c \in NewCalls : calls'[c].kind = "sync")
          => token_cache' = token_cache /\ hot_tokens' = hot_tokens
     /\ \A key \in DOMAIN token_cache :
          key \notin DOMAIN token_cache' \/ token_cache'[key] # token_cache[key]
          => \/ calls' = calls
             \/ \E c \in CallIds : /\ KeyOf(c) = key /\ calls[c].pc = "service"
                                    /\ calls'[c].tap # <<>>]_vars

\* C20, its case: a call made when no other was in flight has looked up the
\* key, found the record of an earlier call expired and gone on to fetch; the
\* expired record is still in the cache
C20_Witness ==
  \E c1, c2 \in CallIds :
    /\ c1 < c2 /\ calls[c2].kind = "sync" /\ calls[c2].pc = "generate"
    /\ calls[c2].concurrent = {}
    /\ KeyOf(c2) \in DOMAIN token_cache
    /\ token_cache[KeyOf(c2)].token.n = c1
    /\ is_expired(token_cache[KeyOf(c2)])

\* the last element of a sequence
Last(seq) == seq[Len(seq)]

MadeAfterStored(c1, c2) ==
  /\ c1 < c2 /\ KeyOf(c1) = KeyOf(c2)
  /\ calls[c1].tap # <<>> /\ clock <= calls[c1].tap[1].expiry
  /\ c1 \notin calls[c2].concurrent /\ c1 \notin calls[c2].refreshed
  /\ \A c3 \in CallIds \ {c1, c2} : KeyOf(c3) = KeyOf(c1) => calls[c3].timestamp = -1

\* C22, first half: a get_attestation_headers call made after
\* get_argos_token_async stored token T, with T unexpired and no refresh or
\* other fetch in between, returns T and fetches nothing
C22_SyncAfterAsync ==
  \A c1, c2 \in CallIds :
    calls[c1].kind = "async" /\ calls[c2].kind = "sync" /\ MadeAfterStored(c1, c2)
    => /\ calls[c2].timestamp = -1
       /\ calls[c2].got = <<[ok |-> TRUE, by |-> c2, token |-> <<calls[c1].tap[1].token>>]>>

\* C22, second half: a get_argos_token_async call made after
\* get_attestation_headers stored token T, with T unexpired and no refresh or
\* other fetch in between, is given no token other than T
C22_AsyncAfterSync ==
  \A c1, c2 \in CallIds :
    calls[c1].kind = "sync" /\ calls[c2].kind = "async" /\ MadeAfterStored(c1, c2)
      /\ ReceivedToken(c2)
    => calls[c2].got[1].token = <<calls[c1].tap[1].token>>

\* C22: the two entry points give the same token for a key while a stored
\* token for it is unexpired, whichever of the two stored it
C22_Consistent == C22_SyncAfterAsync /\ C22_AsyncAfterSync

\* C23: a PREWARMING refresh, of EnhancedArgosTokenGenerator and of
\* ArgosTokenGenerator alike, leaves the cache and hot_tokens as they are and
\* moves no call (no fetch is started, none is ended)
C23_PrewarmingNoOp ==
  [][/\ Refresh("PREWARMING") =>
          token_cache' = token_cache /\ hot_tokens' = hot_tokens /\ calls' = calls
     /\ refresh_token("PREWARMING") =>
          basic_cache' = basic_cache /\ basic_out' = basic_out]_vars

\* C23, its case: both generators hold what they held when the refresh was
\* called, entries and hot keys among it
C23_Witness ==
  /\ args # <<>>
  /\ DOMAIN token_cache # {} /\ token_cache = args.token_cache
  /\ hot_tokens = DOMAIN token_cache
  /\ DOMAIN basic_cache # {} /\ basic_cache = args.basic_cache

\* C24: the step in which the generate thread has its token is the step that
\* stores it under the key, and a callback is called with (True, T) only in a
\* later step, by a thread that had T stored before
C24_StoreBeforeRelease ==
  [][/\ \A c \in CallIds :
          calls[c].kind = "async" /\ calls[c].tap = <<>> /\ calls'[c].tap # <<>>
          => /\ KeyOf(c) \in DOMAIN token_cache'
             /\ token_cache'[KeyOf(c)] = calls'[c].tap[1]
             /\ calls'[c].got = calls[c].got
     /\ \A c \in CallIds :
          calls[c].kind = "async" /\ Len(calls'[c].got) > Len(calls[c].got)
            /\ Last(calls'[c].got).ok
          => LET l == Last(calls'[c].got).by IN
             /\ calls[l].tap # <<>>
             /\ Last(calls'[c].got).token = <<calls[l].tap[1].token>>]_vars

\* C24, its case: a callback has been called with (True, T) and T is in the
\* cache under the key
C24_Witness ==
  \E c \in CallIds :
    /\ calls[c].kind = "async" /\ calls[c].got # <<>> /\ calls[c].got[1].ok
    /\ KeyOf(c) \in DOMAIN token_cache
    /\ <<token_cache[KeyOf(c)].token>> = calls[c].got[1].token

\* C25: no thread is left waiting for token_queue.lock: the lock is free
\* between the steps, so that enqueue_request and complete_request can run,
\* and no generate thread is stuck in a callback that called
\* get_argos_token_async from within complete_request
C25_NoDeadlock ==
  /\ lock = 0
  /\ \A c \in CallIds : calls[c].pc # "deadlocked"

\* C26: every key in hot_tokens has an entry in token_cache
C26_HotSubset == hot_tokens \subseteq DOMAIN token_cache

\* C27: the device_fingerprint in the attestation payload of every fetch is
\* the digest of the device identity as it was given at construction, so that
\* any two fetches carry the same one
C27_FingerprintOfIdentity ==
  device_info.attestation # <<>>
    => device_info.attestation[1].device_fingerprint
         = [device_id |-> "dev", attestation |-> <<>>]

\* C28: of two calls with the same method and url and different bodies, the
\* second served from the cache, the second returns a signature of its own,
\* taken over its own body, and not the signature of the first
C28_SignatureCoversBody ==
  \A i, j \in DOMAIN sim_out :
    /\ i < j /\ sim_out[j].cached
    /\ sim_out[i].method = sim_out[j].method /\ sim_out[i].url = sim_out[j].url
    /\ sim_out[i].body # sim_out[j].body
    => sim_out[j].headers[SIGNATURE] # sim_out[i].headers[SIGNATURE]
====
